---------------------------- MODULE Spec2Model ----------------------------
(***************************************************************************)
(* Mole Attack (src/main.py): the menu -> countdown -> session life cycle, *)
(* with run_game's frame loop broken into its program points:              *)
(*   "frame"   top of `while True` (clock.tick, game-over check,            *)
(*             pygame.event.get()),                                        *)
(*   "events"  inside `for event in pygame.event.get()`, one event per     *)
(*             step; when the list is exhausted the game logic (spawn,     *)
(*             moles.update) runs and the loop goes back to "frame".       *)
(* The list pygame.event.get() returns is an input: the model draws each   *)
(* of its elements when the loop takes it, and its end when the loop ends. *)
(* The locals of the loop body (event, mouse_pos) are dead once the loop   *)
(* is over and are forgotten there; a frame of run_game that is gone       *)
(* (after return, after sys.exit()) holds nothing.                         *)
(* Times are milliseconds of pygame.time.get_ticks().                      *)
(***************************************************************************)
EXTENDS Integers, Sequences, FiniteSets, TLC

VARIABLES
    pc,                  \* program point: "menu", "countdown", "run_game", "frame", "events", "returned", "terminated", "crashed"
    selected_difficulty, \* module global set by the menu selector
    selected_theme,      \* module global set by the menu selector
    launches,            \* calls of start_the_game() so far
    number,              \* show_countdown: the numeral on screen (0 outside the countdown)
    start_ms,            \* show_countdown: get_ticks() when the numeral appeared
    now_ms,              \* last value read from pygame.time.get_ticks()
    start_time_ms,       \* run_game local
    theme,               \* show_countdown / run_game local: the resolved THEMES entry
    last_spawn_time,     \* run_game local
    score,               \* run_game local
    lives,               \* run_game local
    game_over,           \* run_game local
    active_mole,         \* run_game local: index into mole_list, or None
    moles,               \* mole_list: index -> Mole object (active, spawn_time, visible_ms)
    mouse_pos,           \* run_game local: last pygame.mouse.get_pos()
    event,               \* run_game: the loop variable of `for event in pygame.event.get()`
    taken,               \* run_game: events of this frame's list the loop has taken so far
    music_stops,         \* calls of pygame.mixer.music.stop() in this session
    game_over_plays,     \* calls of game_over_sound.play() in this session
    spawns,              \* calls of spawn_new_mole() in this session
    frames               \* loop iterations completed in this session

vars == <<pc, selected_difficulty, selected_theme, launches, number, start_ms, now_ms, start_time_ms, theme, last_spawn_time, score, lives, game_over, active_mole, moles, mouse_pos, event, taken, music_stops, game_over_plays, spawns, frames>>

---------------------------------------------------------------------------
(* Bounds of the model *)

\* loop iterations of run_game explored per session
MaxFrames == 3
\* events pygame.event.get() returns in one frame
MaxEvents == 2
\* random.choice(mole_list) is explored over the first MaxPick moles
MaxPick == 2
\* presses of Play explored in one run of the program
MaxLaunches == 2
\* the game loop is followed while pygame.time.get_ticks() <= MaxTick
MaxTick == 100000

---------------------------------------------------------------------------
(* Window / grid configuration *)

WINDOW_WIDTH == 800
WINDOW_HEIGHT == 600
GRID_ROWS == 3
GRID_COLS == 3

\* DIFFICULTIES: name -> (mole_visible_ms, spawn_interval_ms, game_length_seconds)
DIFFICULTIES == ("Easy" :> <<1200, 900, 30>>) @@ ("Medium" :> <<900, 700, 25>>) @@ ("Hard" :> <<650, 550, 20>>)

DifficultyNames == DOMAIN DIFFICULTIES

\* THEMES: name -> the entries of the theme dict that are written in the source
\* (paths and colours; "None" is Python's None)
ThemeEntry(bg_type, c1, c2, bg, music, mole, hole) == [bg_type |-> bg_type, bg_colors |-> <<c1, c2>>, bg_image_path |-> bg, bg_music_path |-> music, mole_image_path |-> mole, hole_image_path |-> hole]

THEMES ==
    ("Default" :> ThemeEntry("gradient", <<10, 70, 50>>, <<230, 140, 70>>, "None", "assets/sounds/bg_music.mp3", "None", "None"))
    @@ ("Jungle" :> ThemeEntry("image", <<10, 60, 40>>, <<40, 100, 60>>, "assets/images/jungle_bg.png", "assets/sounds/jungle_bg.mp3", "assets/images/jungle_mole.png", "assets/images/jungle_hole.png"))
    @@ ("Beach" :> ThemeEntry("image", <<30, 140, 200>>, <<240, 220, 160>>, "assets/images/beach_bg.png", "assets/sounds/beach_bg.mp3", "assets/images/beach_mole.png", "assets/images/beach_hole.png"))
    @@ ("Desert" :> ThemeEntry("image", <<180, 140, 80>>, <<240, 200, 130>>, "assets/images/desert_bg.png", "assets/sounds/desert_bg.mp3", "assets/images/desert_mole.png", "assets/images/desert_hole.png"))

ThemeNames == DOMAIN THEMES

\* no theme dict: the local `theme` is not bound (or holds Python's None)
NoTheme == ThemeEntry("None", <<>>, <<>>, "None", "None", "None", "None")

\* a variant without the default: THEMES.get(name)
ThemeGetNoDefault(name) == IF name \in DOMAIN THEMES THEN THEMES[name] ELSE NoTheme

\* THEMES.get(name, THEMES["Default"])
ThemeGet(name) == IF name \in DOMAIN THEMES THEN THEMES[name] ELSE THEMES["Default"]

\* a variant in which a mole is visible for less than the spawn interval
ShortVisible == DIFFICULTIES[selected_difficulty][2] - 1

mole_visible_ms == DIFFICULTIES[selected_difficulty][1]
spawn_interval_ms == DIFFICULTIES[selected_difficulty][2]
game_length_seconds == DIFFICULTIES[selected_difficulty][3]

Min(a, b) == IF a <= b THEN a ELSE b
Max(a, b) == IF a >= b THEN a ELSE b

---------------------------------------------------------------------------
(* Board layout and rectangles *)

margin_x == WINDOW_WIDTH \div 8
margin_y == WINDOW_HEIGHT \div 6
cell_w == (WINDOW_WIDTH - 2 * margin_x) \div GRID_COLS
cell_h == (WINDOW_HEIGHT - 2 * margin_y) \div GRID_ROWS

NumHoles == GRID_ROWS * GRID_COLS

\* a variant with the two loops nested the other way round (column-major)
HolePositionColumnMajor(i) ==
    LET col == (i - 1) \div GRID_ROWS
        row == (i - 1) % GRID_ROWS
    IN  <<margin_x + cell_w * col + cell_w \div 2, margin_y + cell_h * row + cell_h \div 2>>

\* positions[i], i = 1..9 in row-major order (row = (i-1) div cols, col = (i-1) mod cols)
HolePosition(i) ==
    LET row == (i - 1) \div GRID_COLS
        col == (i - 1) % GRID_COLS
    IN  <<margin_x + cell_w * col + cell_w \div 2, margin_y + cell_h * row + cell_h \div 2>>

hole_radius == Min(cell_w, cell_h) \div 3

\* create_holes() -> (positions, radius)
create_holes == <<[i \in 1..NumHoles |-> HolePosition(i)], hole_radius>>

\* pygame.Rect.collidepoint: left <= x < left + width and top <= y < top + height
CollidePoint(rect, p) ==
    /\ rect.left <= p[1] /\ p[1] < rect.left + rect.width
    /\ rect.top <= p[2] /\ p[2] < rect.top + rect.height

\* Mole.rect = image.get_rect(center=pos) for an image of size (2*radius, 2*radius)
MoleRect(i) ==
    LET pos == create_holes[1][i]
        r == create_holes[2]
    IN  [left |-> pos[1] - (2 * r) \div 2, top |-> pos[2] - (2 * r) \div 2, width |-> 2 * r, height |-> 2 * r]

\* size of font.render("Exit") in the 28 px HUD font (decided by the font, not the program)
ExitTextWidth == 48
ExitTextHeight == 32

\* compute_exit_button_rect(font)
compute_exit_button_rect ==
    LET w == ExitTextWidth + 10 * 2
        h == ExitTextHeight + 6 * 2
    IN  [left |-> (WINDOW_WIDTH - 10) - w, top |-> 70, width |-> w, height |-> h]

---------------------------------------------------------------------------
(* Mole *)

None == 0

\* a variant whose moles start out active
NewMoleActive(visible_ms) == [active |-> TRUE, spawn_time |-> 0, visible_ms |-> visible_ms]

\* Mole.__init__
NewMole(visible_ms) == [active |-> FALSE, spawn_time |-> 0, visible_ms |-> visible_ms]

\* Mole.activate(now_ms)
Activate(m, t) == [m EXCEPT !.active = TRUE, !.spawn_time = t]

\* Mole.deactivate()
Deactivate(m) == [m EXCEPT !.active = FALSE]

\* Mole.update(now_ms)
MoleUpdate(m, t) == IF m.active /\ (t - m.spawn_time) > m.visible_ms THEN Deactivate(m) ELSE m

\* moles.update(now_ms): every mole of the group
MolesUpdate(ms, t) == [i \in DOMAIN ms |-> MoleUpdate(ms[i], t)]

ActiveSet(ms) == {i \in DOMAIN ms : ms[i].active}

---------------------------------------------------------------------------
(* Inputs explored *)

\* event kinds the handlers distinguish: pygame.QUIT, MOUSEBUTTONDOWN with
\* button 1, KEYDOWN with K_ESCAPE, and anything else (ignored by run_game)
EventKinds == {"QUIT", "MOUSEBUTTONDOWN_1", "KEYDOWN_ESCAPE", "OTHER"}

NoEvent == "NONE"

\* what one pass of the countdown's event loop sees: one event, or an empty list
EventInputs == EventKinds \cup {NoEvent}

\* indices random.choice(mole_list) may return
Picks == 1..Min(MaxPick, NumHoles)

ExitPoint == <<WINDOW_WIDTH - 20, 80>>
EmptyPoint == <<5, WINDOW_HEIGHT - 5>>
NoPos == <<-1, -1>>

\* cursor positions pygame.mouse.get_pos() may return: the centre of a hideout,
\* a point of the Exit button, a point on no hideout
MousePoints == {HolePosition(i) : i \in Picks} \cup {ExitPoint, EmptyPoint}

\* get_ticks() when Play is pressed after n earlier presses: early in the run
\* the first time, then late enough to come after a session of MaxFrames
\* frames (2000 + 3600 + 3 * 29000 = 92600)
LaunchTicks(n) == IF n = 0 THEN {2000} ELSE {95000}

\* the same where frames take LiveDts: after a session of MaxFrames such frames
\* (2000 + 3600 + 3 * 15000 = 50600), with room for another to reach its end
\* before MaxTick
LiveLaunchTicks(n) == IF n = 0 THEN {2000} ELSE {52000}

\* time one countdown frame takes: three such frames overshoot the 1000 ms
\* mark (400 + 400 + 400 = 1200)
CountdownDts == {400}

\* frame durations for following a session to its end within MaxFrames frames:
\* two fifths and one half of the session length
LiveDts == {game_length_seconds * 400, game_length_seconds * 500}

\* durations of one countdown iteration on the launch path: 250 and 500 can
\* meet the mark exactly or pass it (750 + 500 = 1250)
LaunchDts == CountdownDts \cup {250, 500}

\* theme names the lookup THEMES.get(theme_name, THEMES["Default"]) is explored
\* with on the launch path: the table's keys, which are all set_theme can
\* assign, and one string that is no key, so that the default of the lookup is
\* exercised. What holds for this larger set holds for the program.
ThemeInputs == ThemeNames \cup {"Space"}

\* time one run_game frame takes (clock.tick(FPS) only sets a minimum): exactly
\* the spawn interval, just over it, and a stall one second short of the session
FrameDts == {spawn_interval_ms, spawn_interval_ms + 1, (game_length_seconds - 1) * 1000}

---------------------------------------------------------------------------
(* run_game: per-frame computations *)

\* Python int(): truncation toward zero of a / b, b > 0
IntTrunc(a, b) == IF a >= 0 THEN a \div b ELSE -((-a) \div b)

\* remaining_s = max(0, int(game_length_seconds - (now_ms - start_time_ms) / 1000.0))
RemainingS(now, start, len_s) == Max(0, IntTrunc(len_s * 1000 - (now - start), 1000))

\* a variant that forgets `and not game_over`
EnterGameOverUnguarded(rem, lv, go) == rem <= 0 \/ lv <= 0

\* a variant that forgets `remaining_s <= 0 or`
EnterGameOverLivesOnly(rem, lv, go) == lv <= 0 /\ ~go

\* the condition of `if (remaining_s <= 0 or lives <= 0) and not game_over`
EnterGameOver(rem, lv, go) == (rem <= 0 \/ lv <= 0) /\ ~go

\* a variant that assigns the condition itself: game_over = <condition>
GameOverFlagAssigned(enter, go) == enter

\* game_over after the game-over block: set to True inside it, untouched otherwise
GameOverFlag(enter, go) == IF enter THEN TRUE ELSE go

\* a variant that nests the Exit test under `if not game_over`
ExitClickedWhileRunning(go, p) == ~go /\ CollidePoint(compute_exit_button_rect, p)

\* exit_rect.collidepoint(mouse_pos), tested for every button-1 press
ExitClicked(go, p) == CollidePoint(compute_exit_button_rect, p)

\* a variant that forgets `mole.active and`
HitMoleAnyRect(ms, p) ==
    LET hits == {i \in DOMAIN ms : CollidePoint(MoleRect(i), p)}
    IN  IF hits = {} THEN None ELSE CHOOSE i \in hits : \A j \in hits : i <= j

\* the first mole of mole_list with mole.active and mole.rect.collidepoint(mouse_pos)
HitMole(ms, p) ==
    LET hits == {i \in DOMAIN ms : ms[i].active /\ CollidePoint(MoleRect(i), p)}
    IN  IF hits = {} THEN None ELSE CHOOSE i \in hits : \A j \in hits : i <= j

\* a variant in which a miss costs a point
ClickScorePenalty(sc, h) == IF h # None THEN sc + 1 ELSE sc - 1

\* score after a press while not game_over (h = the mole hit, or None)
ClickScore(sc, h) == IF h # None THEN sc + 1 ELSE sc

\* a variant that forgets `hit_any = True`
ClickLivesAlways(lv, h) == lv - 1

\* lives after a press while not game_over: `if not hit_any: lives -= 1`
ClickLives(lv, h) == IF h # None THEN lv ELSE lv - 1

\* a variant that forgets mole.deactivate() on a hit
ClickMolesKeep(ms, h) == ms

\* mole_list after a press while not game_over: the hit mole is deactivated
ClickMoles(ms, h) == IF h # None THEN [ms EXCEPT ![h] = Deactivate(@)] ELSE ms

\* a variant that forgets to deactivate the old mole
KeepOld(ms, am) == ms

\* spawn_new_mole, first half: deactivate the old mole (if any)
DeactivateOld(ms, am) == IF am # None THEN [ms EXCEPT ![am] = Deactivate(@)] ELSE ms

\* spawn_new_mole(now_ms) with random.choice(mole_list) = mole k
SpawnNewMole(ms, am, k, t, vis) == [DeactivateOld(ms, am) EXCEPT ![k] = Activate([@ EXCEPT !.visible_ms = vis], t)]

\* a variant that forgets `not game_over and`
SpawnDueAlways(go, now, last, interval) == (now - last) > interval

\* a variant with a non-strict comparison
SpawnDueNonStrict(go, now, last, interval) == ~go /\ (now - last) >= interval

\* the spawn condition of the game logic
SpawnDue(go, now, last, interval) == ~go /\ (now - last) > interval

\* a variant that starts the spawn timer at the session start
InitialLastSpawnNow(now) == now

\* last_spawn_time = 0 of the initial game state (now = get_ticks() at that moment)
InitialLastSpawn(now) == 0

---------------------------------------------------------------------------
(* State *)

SessionLocals == <<theme, start_time_ms, last_spawn_time, score, lives, game_over, active_mole, moles, mouse_pos, event, taken, music_stops, game_over_plays, spawns, frames>>

\* no run_game frame exists: its locals hold nothing
NoSession ==
    /\ theme = NoTheme
    /\ start_time_ms = 0 /\ last_spawn_time = 0 /\ score = 0 /\ lives = 0
    /\ game_over = FALSE /\ active_mole = None /\ moles = <<>> /\ mouse_pos = NoPos
    /\ event = NoEvent /\ taken = 0 /\ music_stops = 0 /\ game_over_plays = 0 /\ spawns = 0 /\ frames = 0

Init ==
    /\ pc = "menu"
    /\ selected_difficulty = "Easy"
    /\ selected_theme = "Default"
    /\ launches = 0
    /\ number = 0 /\ start_ms = 0 /\ now_ms = 0
    /\ NoSession

---------------------------------------------------------------------------
(* Menu *)

\* set_difficulty(selected, difficulty_index)
SetDifficulty(d) ==
    /\ pc = "menu"
    /\ selected_difficulty' = d
    /\ UNCHANGED <<pc, selected_theme, launches, number, start_ms, now_ms>>
    /\ UNCHANGED SessionLocals

\* set_theme(selected, index)
SetTheme(t) ==
    /\ pc = "menu"
    /\ selected_theme' = t
    /\ UNCHANGED <<pc, selected_difficulty, launches, number, start_ms, now_ms>>
    /\ UNCHANGED SessionLocals

\* quit_game(), or pygame.QUIT in the menu loop
QuitGame ==
    /\ pc = "menu"
    /\ pc' = "terminated"
    /\ UNCHANGED <<selected_difficulty, selected_theme, launches, number, start_ms, now_ms>>
    /\ UNCHANGED SessionLocals

\* start_the_game(): the Play button at get_ticks() = t, which is not before
\* the last clock value read; show_countdown() begins with numeral 3
StartTheGame(t) ==
    /\ pc = "menu"
    /\ launches < MaxLaunches
    /\ t >= now_ms
    /\ launches' = launches + 1
    /\ pc' = "countdown"
    /\ number' = 3
    /\ now_ms' = t
    /\ start_ms' = t
    /\ UNCHANGED <<selected_difficulty, selected_theme>>
    /\ UNCHANGED SessionLocals

---------------------------------------------------------------------------
(* Countdown *)

\* a variant that holds a numeral for half the time
CountdownHoldsHalf(now, start) == now - start < 500

\* `while pygame.time.get_ticks() - start_ms < 1000`
CountdownHolds(now, start) == now - start < 1000

\* a variant in which no event ends the countdown
CountdownExitsNever(e) == FALSE

\* a variant in which ESC ends the process as well
CountdownExitsOnEscape(e) == e \in {"QUIT", "KEYDOWN_ESCAPE"}

\* `if event.type == pygame.QUIT` of the countdown's event loop
CountdownExits(e) == e = "QUIT"

\* the session locals the countdown does not touch (all but its loop variable)
CountdownKeeps == <<start_time_ms, last_spawn_time, score, lives, game_over, active_mole, moles, mouse_pos, taken, music_stops, game_over_plays, spawns, frames>>

\* one iteration of the while loop whose event list holds e (or nothing) and
\* no pygame.QUIT: the event is dropped, the numeral is drawn, clock.tick(FPS)
\* waits
CountdownFrame(e, dt) ==
    /\ pc = "countdown"
    /\ CountdownHolds(now_ms, start_ms)
    /\ ~CountdownExits(e)
    /\ event' = e
    /\ theme' = ThemeGet(selected_theme)
    /\ now_ms' = now_ms + dt
    /\ UNCHANGED <<pc, selected_difficulty, selected_theme, launches, number, start_ms>>
    /\ UNCHANGED CountdownKeeps

\* an iteration whose event list holds pygame.QUIT: pygame.quit(); sys.exit()
CountdownQuit(e) ==
    /\ pc = "countdown"
    /\ CountdownHolds(now_ms, start_ms)
    /\ CountdownExits(e)
    /\ event' = e
    /\ pc' = "terminated"
    /\ UNCHANGED theme
    /\ UNCHANGED <<selected_difficulty, selected_theme, launches, number, start_ms, now_ms>>
    /\ UNCHANGED CountdownKeeps

\* the while loop of one numeral ends: next numeral of [3, 2, 1], or return
CountdownNext ==
    /\ pc = "countdown"
    /\ ~CountdownHolds(now_ms, start_ms)
    /\ IF number > 1
       THEN pc' = pc /\ number' = number - 1 /\ start_ms' = now_ms /\ theme' = theme
       ELSE pc' = "run_game" /\ number' = 0 /\ start_ms' = 0 /\ theme' = NoTheme
    /\ UNCHANGED <<selected_difficulty, selected_theme, launches, now_ms>>
    /\ UNCHANGED <<event, CountdownKeeps>>

---------------------------------------------------------------------------
(* Session *)

\* run_game has returned: its frame goes away
DropSession ==
    /\ theme' = NoTheme
    /\ start_time_ms' = 0 /\ last_spawn_time' = 0 /\ score' = 0 /\ lives' = 0
    /\ game_over' = FALSE /\ active_mole' = None /\ moles' = <<>> /\ mouse_pos' = NoPos
    /\ event' = NoEvent /\ taken' = 0 /\ music_stops' = 0 /\ game_over_plays' = 0 /\ spawns' = 0 /\ frames' = 0

\* run_game up to the game loop: unpack the difficulty (DIFFICULTIES[name]
\* raises KeyError for a name that is no key, which nothing catches: the
\* process ends with a traceback), resolve the theme, one Mole per hole, the
\* initial game state, start_time_ms = get_ticks()
RunGame ==
    /\ pc = "run_game"
    /\ IF selected_difficulty \in DOMAIN DIFFICULTIES
       THEN /\ pc' = "frame"
            /\ theme' = ThemeGet(selected_theme)
            /\ moles' = [i \in 1..NumHoles |-> NewMole(mole_visible_ms)]
            /\ score' = 0
            /\ lives' = 3
            /\ last_spawn_time' = InitialLastSpawn(now_ms)
            /\ active_mole' = None
            /\ game_over' = FALSE
            /\ start_time_ms' = now_ms
            /\ mouse_pos' = NoPos
            /\ event' = NoEvent
            /\ taken' = 0
            /\ music_stops' = 0
            /\ game_over_plays' = 0
            /\ spawns' = 0
            /\ frames' = 0
       ELSE /\ pc' = "crashed"
            /\ UNCHANGED SessionLocals
    /\ UNCHANGED <<selected_difficulty, selected_theme, launches, number, start_ms, now_ms>>

\* head of the loop body: clock.tick, now_ms, remaining_s, the game-over
\* block, and pygame.event.get()
FrameStart(dt) ==
    /\ pc = "frame"
    /\ frames < MaxFrames
    /\ now_ms + dt <= MaxTick
    /\ now_ms' = now_ms + dt
    /\ LET rem == RemainingS(now_ms', start_time_ms, game_length_seconds)
           enter == EnterGameOver(rem, lives, game_over)
       IN  /\ game_over' = GameOverFlag(enter, game_over)
           /\ music_stops' = IF enter THEN music_stops + 1 ELSE music_stops
           /\ game_over_plays' = IF enter THEN game_over_plays + 1 ELSE game_over_plays
    /\ taken' = 0
    /\ pc' = "events"
    /\ UNCHANGED <<selected_difficulty, selected_theme, launches, number, start_ms, start_time_ms, theme, last_spawn_time, score, lives, active_mole, moles, mouse_pos, event, spawns, frames>>

\* the loop takes the next event e of the list
TakeEvent(e) ==
    /\ pc = "events"
    /\ taken < MaxEvents
    /\ event' = e
    /\ taken' = taken + 1

\* `if event.type == pygame.QUIT`: pygame.quit(); sys.exit()
HandleQuit ==
    /\ TakeEvent("QUIT")
    /\ pc' = "terminated"
    /\ UNCHANGED <<selected_difficulty, selected_theme, launches, number, start_ms, now_ms, start_time_ms, theme, last_spawn_time, score, lives, game_over, active_mole, moles, mouse_pos, music_stops, game_over_plays, spawns, frames>>

\* `if event.type == pygame.MOUSEBUTTONDOWN and event.button == 1` with
\* pygame.mouse.get_pos() = p. get_pos() reports the cursor as of the last
\* event pump, which is this frame's pygame.event.get(): every press of one
\* frame reads the same position
HandleMouseButton(p) ==
    /\ TakeEvent("MOUSEBUTTONDOWN_1")
    /\ mouse_pos \in {NoPos, p}
    /\ mouse_pos' = p
    /\ IF ExitClicked(game_over, p)
       THEN /\ pc' = "returned"
            /\ UNCHANGED <<score, lives, moles>>
       ELSE /\ pc' = pc
            /\ IF ~game_over
               THEN LET h == HitMole(moles, p)
                    IN  /\ score' = ClickScore(score, h)
                        /\ lives' = ClickLives(lives, h)
                        /\ moles' = ClickMoles(moles, h)
               ELSE UNCHANGED <<score, lives, moles>>
    /\ UNCHANGED <<selected_difficulty, selected_theme, launches, number, start_ms, now_ms, start_time_ms, theme, last_spawn_time, game_over, active_mole, music_stops, game_over_plays, spawns, frames>>

\* `if event.type == pygame.KEYDOWN and event.key == pygame.K_ESCAPE: return`
HandleEscape ==
    /\ TakeEvent("KEYDOWN_ESCAPE")
    /\ pc' = "returned"
    /\ UNCHANGED <<selected_difficulty, selected_theme, launches, number, start_ms, now_ms, start_time_ms, theme, last_spawn_time, score, lives, game_over, active_mole, moles, mouse_pos, music_stops, game_over_plays, spawns, frames>>

\* any other event: no branch of the loop body matches
HandleOther ==
    /\ TakeEvent("OTHER")
    /\ UNCHANGED <<pc, selected_difficulty, selected_theme, launches, number, start_ms, now_ms, start_time_ms, theme, last_spawn_time, score, lives, game_over, active_mole, moles, mouse_pos, music_stops, game_over_plays, spawns, frames>>

\* the event list is exhausted: the spawn (random.choice = mole k),
\* moles.update(now_ms), the drawing, and back to the head of the loop
GameLogic(k) ==
    /\ pc = "events"
    /\ IF SpawnDue(game_over, now_ms, last_spawn_time, spawn_interval_ms)
       THEN /\ moles' = MolesUpdate(SpawnNewMole(moles, active_mole, k, now_ms, mole_visible_ms), now_ms)
            /\ active_mole' = k
            /\ last_spawn_time' = now_ms
            /\ spawns' = spawns + 1
       ELSE /\ moles' = MolesUpdate(moles, now_ms)
            /\ UNCHANGED <<active_mole, last_spawn_time, spawns>>
    /\ frames' = frames + 1
    /\ pc' = "frame"
    /\ event' = NoEvent
    /\ taken' = 0
    /\ mouse_pos' = NoPos
    /\ UNCHANGED <<selected_difficulty, selected_theme, launches, number, start_ms, now_ms, start_time_ms, theme, score, lives, game_over, music_stops, game_over_plays>>

\* start_the_game() after run_game returned: the menu music is restored and
\* the menu loop resumes
BackToMenu ==
    /\ pc = "returned"
    /\ pc' = "menu"
    /\ DropSession
    /\ UNCHANGED <<selected_difficulty, selected_theme, launches, number, start_ms, now_ms>>

Next ==
    \/ \E d \in DifficultyNames : SetDifficulty(d)
    \/ \E t \in ThemeNames : SetTheme(t)
    \/ QuitGame
    \/ \E t \in LaunchTicks(launches) : StartTheGame(t)
    \/ \E e \in EventInputs, dt \in CountdownDts : CountdownFrame(e, dt)
    \/ \E e \in EventInputs : CountdownQuit(e)
    \/ CountdownNext
    \/ RunGame
    \/ \E dt \in FrameDts : FrameStart(dt)
    \/ HandleQuit
    \/ \E p \in MousePoints : HandleMouseButton(p)
    \/ HandleEscape
    \/ HandleOther
    \/ \E k \in Picks : GameLogic(k)
    \/ BackToMenu

Spec == Init /\ [][Next]_vars

\* The launch path on its own: start_the_game() hands the two globals to
\* show_countdown() and run_game(). selected_difficulty is one of the
\* selector's names, as in the program; selected_theme ranges over ThemeInputs.
\* Countdown frames may overshoot the 1000 ms mark. The session itself is not
\* followed here.
InitLaunch ==
    /\ pc = "menu"
    /\ selected_difficulty \in DifficultyNames
    /\ selected_theme \in ThemeInputs
    /\ launches = 0
    /\ number = 0 /\ start_ms = 0 /\ now_ms = 0
    /\ NoSession

NextLaunch ==
    \/ \E d \in DifficultyNames : SetDifficulty(d)
    \/ \E t \in ThemeNames : SetTheme(t)
    \/ QuitGame
    \/ \E t \in LaunchTicks(launches) : StartTheGame(t)
    \/ \E e \in EventInputs, dt \in LaunchDts : CountdownFrame(e, dt)
    \/ \E e \in EventInputs : CountdownQuit(e)
    \/ CountdownNext
    \/ RunGame

SpecLaunch == InitLaunch /\ [][NextLaunch]_vars

\* The program with frames long enough for a session to run out of time
\* within MaxFrames frames. `while True` of run_game keeps iterating: once
\* the head of an iteration can run it does, and once the event list is
\* exhausted the game logic runs. Nothing is assumed about the player's input.
NextLive ==
    \/ \E d \in DifficultyNames : SetDifficulty(d)
    \/ \E t \in ThemeNames : SetTheme(t)
    \/ QuitGame
    \/ \E t \in LiveLaunchTicks(launches) : StartTheGame(t)
    \/ \E e \in EventInputs, dt \in CountdownDts : CountdownFrame(e, dt)
    \/ \E e \in EventInputs : CountdownQuit(e)
    \/ CountdownNext
    \/ RunGame
    \/ \E dt \in LiveDts : FrameStart(dt)
    \/ HandleQuit
    \/ \E p \in MousePoints : HandleMouseButton(p)
    \/ HandleEscape
    \/ HandleOther
    \/ \E k \in Picks : GameLogic(k)
    \/ BackToMenu

LoopRuns == WF_vars(\E dt \in LiveDts : FrameStart(dt)) /\ WF_vars(\E k \in Picks : GameLogic(k))

SpecLive == Init /\ [][NextLive]_vars /\ LoopRuns

---------------------------------------------------------------------------
(* Helpers for the properties *)

InSession == pc \in {"frame", "events"}

Elapsed == now_ms - start_time_ms

TypeOK ==
    /\ pc \in {"menu", "countdown", "run_game", "frame", "events", "returned", "terminated"}
    /\ selected_difficulty \in DifficultyNames
    /\ selected_theme \in ThemeNames
    /\ launches \in 0..MaxLaunches
    /\ now_ms \in 0..MaxTick
    /\ number \in 0..3
    /\ score \in Nat
    /\ lives \in Int
    /\ game_over \in BOOLEAN
    /\ active_mole \in 0..NumHoles
    /\ taken \in 0..MaxEvents

\* pygame.time.get_ticks() never goes back
ClockMonotone == [][now_ms' >= now_ms]_vars

---------------------------------------------------------------------------
(* Properties *)

\* the step takes an event of kind e from the frame's list
Takes(e) == pc = "events" /\ taken' = taken + 1 /\ event' = e

\* the session goes on or returns to start_the_game (the process does not end)
Stays == pc' \in {"frame", "events", "returned"}

\* C1: in every reachable state the number of moles with active = TRUE is 0 or 1.
C1_AtMostOneActive == Cardinality(ActiveSet(moles)) <= 1

\* a running session in which a second spawn replaced the first mole by another one
C1_Witness ==
    /\ InSession /\ ~game_over /\ score = 0
    /\ \E i, j \in DOMAIN moles : i # j /\ moles[i].active /\ active_mole = i /\ ~moles[j].active /\ moles[j].spawn_time > 0

\* C2: lives never goes below 0.
C2_LivesNeverNegative == lives >= 0

\* C3 as stated: at every frame boundary active_mole is None or refers to a
\* mole whose active flag is TRUE.
C3_ActiveMoleIsActive == pc = "frame" => (active_mole = None \/ moles[active_mole].active)

\* C3 amended: at every frame boundary every mole whose active flag is TRUE is
\* the one active_mole refers to (active_mole may refer to a mole that a hit or
\* update has deactivated).
C3_OnlyActiveMoleActive == pc = "frame" => \A i \in DOMAIN moles : moles[i].active => active_mole = i

\* a frame boundary after a hit: active_mole still refers to the mole that was hit
C3_Witness == pc = "frame" /\ ~game_over /\ score > 0 /\ active_mole # None /\ ~moles[active_mole].active

\* C4: once game_over is TRUE in a session it stays TRUE until run_game is left.
C4_GameOverAbsorbing == [][(InSession /\ game_over) => (game_over' \/ ~InSession')]_vars

\* an event is handled in a frame after the one in which the session entered
\* GameOver (the mole left active then has expired in an earlier update)
C4_Witness ==
    /\ pc = "events" /\ game_over /\ taken > 0
    /\ score = 0 /\ active_mole # None /\ ~moles[active_mole].active

\* C5: once lives = 0 or remaining_s = 0 holds in a session, score and lives
\* no longer change while the session lasts.
C5_FrozenAfterTerminal == [][(InSession /\ Stays /\ (lives = 0 \/ RemainingS(now_ms, start_time_ms, game_length_seconds) = 0)) => (score' = score /\ lives' = lives)]_vars

\* C6: the music is stopped and the game-over sound played exactly once in a
\* session that has entered GameOver, at the moment game_over becomes TRUE, and
\* not at all in a session that has not.
C6_TerminalEffectsOnce ==
    /\ music_stops = (IF game_over THEN 1 ELSE 0)
    /\ game_over_plays = (IF game_over THEN 1 ELSE 0)

\* a session left after at least one whole frame in GameOver, the effects done once
C6_Witness ==
    /\ pc = "returned" /\ game_over /\ music_stops = 1 /\ game_over_plays = 1
    /\ score = 0 /\ active_mole # None /\ ~moles[active_mole].active

\* C7: with lives > 0 the session is in GameOver only when the elapsed time has
\* reached game_length_seconds.
C7_TimeOverAtLength == (InSession /\ game_over /\ lives > 0) => Elapsed >= game_length_seconds * 1000

\* C8: a button-1 press inside the Exit rectangle returns from run_game in the
\* same step, Running or GameOver, and changes neither score nor lives nor moles.
C8_ExitPress == [][(Takes("MOUSEBUTTONDOWN_1") /\ CollidePoint(compute_exit_button_rect, mouse_pos')) => (pc' = "returned" /\ score' = score /\ lives' = lives /\ moles' = moles)]_vars

\* run_game was left by an Exit press while in GameOver, with a mole still active
C8_Witness ==
    /\ pc = "returned" /\ event = "MOUSEBUTTONDOWN_1" /\ mouse_pos = ExitPoint
    /\ game_over /\ ActiveSet(moles) # {}

\* C9: an escape key press while Running does not end the session.
C9_EscapeOnlyInGameOver == [][(Takes("KEYDOWN_ESCAPE") /\ ~game_over) => pc' = "events"]_vars

\* C10: while Running, a button-1 press outside Exit at a point of the active
\* mole's rectangle adds exactly 1 to score, deactivates that mole and leaves
\* lives as it was.
C10_Hit == [][\A i \in DOMAIN moles : (Takes("MOUSEBUTTONDOWN_1") /\ ~game_over /\ ~CollidePoint(compute_exit_button_rect, mouse_pos') /\ moles[i].active /\ CollidePoint(MoleRect(i), mouse_pos')) => (score' = score + 1 /\ ~moles'[i].active /\ lives' = lives /\ pc' = "events")]_vars

\* right after a hit on the active mole: one point, three lives, the mole hidden
C10_Witness ==
    /\ pc = "events" /\ event = "MOUSEBUTTONDOWN_1" /\ ~game_over
    /\ score = 1 /\ lives = 3 /\ active_mole # None
    /\ mouse_pos = HolePosition(active_mole) /\ ~moles[active_mole].active

\* C11: while Running, a button-1 press outside Exit at a point of no active
\* mole's rectangle (an inactive hideout, or no mole active at all) takes exactly
\* 1 from lives and leaves score and every mole's active flag as they were.
C11_Miss == [][(Takes("MOUSEBUTTONDOWN_1") /\ ~game_over /\ ~CollidePoint(compute_exit_button_rect, mouse_pos') /\ \A i \in DOMAIN moles : ~(moles[i].active /\ CollidePoint(MoleRect(i), mouse_pos'))) => (lives' = lives - 1 /\ score' = score /\ pc' = "events" /\ \A i \in DOMAIN moles : moles'[i].active = moles[i].active)]_vars

\* right after a press on the hideout of an inactive mole while another mole is up
C11_Witness ==
    /\ pc = "events" /\ event = "MOUSEBUTTONDOWN_1" /\ ~game_over
    /\ score = 0 /\ lives = 2 /\ ActiveSet(moles) # {}
    /\ \E i \in DOMAIN moles : mouse_pos = HolePosition(i) /\ ~moles[i].active

\* C12: no mole is active before the game logic of the first frame, and when
\* that frame is Running its game logic spawns: at its end exactly one mole is
\* active, activated at this frame's now_ms, and no other mole was ever activated.
C12_FirstFrameSpawns ==
    /\ (InSession /\ frames = 0) => (ActiveSet(moles) = {} /\ active_mole = None /\ last_spawn_time = 0)
    /\ (pc = "frame" /\ frames = 1 /\ ~game_over) =>
           /\ active_mole # None
           /\ ActiveSet(moles) = {active_mole}
           /\ last_spawn_time = now_ms
           /\ \A i \in DOMAIN moles : moles[i].spawn_time = (IF i = active_mole THEN now_ms ELSE 0)

\* the end of a first frame no later than spawn_interval_ms into the session, a mole up
C12_Witness ==
    /\ pc = "frame" /\ frames = 1 /\ ~game_over
    /\ Elapsed <= spawn_interval_ms /\ ActiveSet(moles) # {}

\* C13 as stated: once game_over is TRUE no mole is spawned and no mole's active
\* flag changes for the rest of the session.
C13_NoChangeAfterGameOver == [][(InSession /\ game_over /\ Stays) => (last_spawn_time' = last_spawn_time /\ \A i \in DOMAIN moles : moles'[i].active = moles[i].active)]_vars

\* C13 amended: once game_over is TRUE no mole is spawned and no mole's active
\* flag changes from FALSE to TRUE; moles.update still runs, so the flag of the
\* mole left active may change from TRUE to FALSE.
C13_NoSpawnAfterGameOver == [][(InSession /\ game_over /\ Stays) => (last_spawn_time' = last_spawn_time /\ active_mole' = active_mole /\ \A i \in DOMAIN moles : moles'[i].active => moles[i].active)]_vars

\* a frame boundary in GameOver at which the mole that was up has expired
C13_Witness ==
    /\ pc = "frame" /\ game_over /\ score = 0 /\ lives = 3
    /\ active_mole # None /\ ~moles[active_mole].active /\ ActiveSet(moles) = {}

\* the name run_game subscripts DIFFICULTIES with is always one of its keys:
\* selected_difficulty starts as "Easy" and set_difficulty assigns only the
\* selector's names, so the KeyError of line 291 is never raised
KnownDifficultyOnly == selected_difficulty \in DifficultyNames /\ pc # "crashed"

\* C15: a theme name that is no key of THEMES resolves to THEMES["Default"],
\* in every drawn countdown iteration and at the start of the session, and the
\* lookup never fails: a crash can only come from the difficulty lookup.
C15_UnknownThemeIsDefault ==
    /\ (selected_theme \notin ThemeNames /\ pc = "countdown" /\ now_ms > start_ms) => theme = THEMES["Default"]
    /\ (selected_theme \notin ThemeNames /\ pc = "frame") => theme = THEMES["Default"]
    /\ (selected_theme \in ThemeNames /\ pc = "frame") => theme = THEMES[selected_theme]
    /\ pc = "crashed" => selected_difficulty \notin DifficultyNames

\* a session started under a theme name that is no key, drawn with the Default entry
C15_Witness ==
    /\ pc = "frame" /\ selected_theme \notin ThemeNames
    /\ theme.bg_type = "gradient" /\ theme.bg_music_path = "assets/sounds/bg_music.mp3"

\* C16 as stated: the countdown starts at 3, goes 3, 2, 1, each numeral is
\* replaced exactly 1000 ms after it appeared, and run_game is entered only
\* from numeral 1.
C16_HeldExactly == [][((pc # "countdown" /\ pc' = "countdown") => number' = 3) /\ ((pc = "countdown" /\ number' # number) => (now_ms - start_ms = 1000 /\ number' = number - 1 /\ (pc' = "run_game") = (number = 1))) /\ ((pc # "run_game" /\ pc' = "run_game") => (pc = "countdown" /\ number = 1))]_vars

\* C16 amended: the countdown starts at 3, goes 3, 2, 1, a numeral is
\* replaced at the first loop test at least 1000 ms after it appeared (its last
\* iteration began before the 1000 ms mark), and run_game is entered only from
\* numeral 1.
C16_HeldAtLeast == [][((pc # "countdown" /\ pc' = "countdown") => (number' = 3 /\ start_ms' = now_ms')) /\ ((pc = "countdown" /\ number' # number) => (now_ms - start_ms >= 1000 /\ now_ms' = now_ms /\ number' = number - 1 /\ (pc' = "run_game") = (number = 1))) /\ ((pc = "countdown" /\ now_ms' # now_ms) => (now_ms - start_ms < 1000 /\ number' = number /\ number \in 1..3)) /\ ((pc # "run_game" /\ pc' = "run_game") => (pc = "countdown" /\ number = 1))]_vars

\* the countdown has returned, more than 3000 ms after the press of Play that
\* began it
C16_Witness ==
    /\ pc = "run_game" /\ number = 0
    /\ \E t \in LaunchTicks(launches - 1) : now_ms - t > 3000

\* C17: a countdown iteration whose event is a button press, a key press or
\* any other non-QUIT event only draws and waits: the numeral, its start time
\* and everything outside the countdown stay as they are; and the session that
\* follows starts from the same state whatever the countdown's events were.
C17_CountdownDiscardsInput == [][((pc = "countdown" /\ CountdownHolds(now_ms, start_ms) /\ event' \in {"MOUSEBUTTONDOWN_1", "KEYDOWN_ESCAPE", "OTHER"}) => (pc' = "countdown" /\ number' = number /\ start_ms' = start_ms /\ now_ms' > now_ms /\ UNCHANGED <<selected_difficulty, selected_theme, CountdownKeeps>>)) /\ ((pc = "run_game" /\ pc' = "frame") => (score' = 0 /\ lives' = 3 /\ ~game_over' /\ active_mole' = None /\ ActiveSet(moles') = {} /\ event' = NoEvent /\ taken' = 0 /\ mouse_pos' = NoPos /\ start_time_ms' = now_ms))]_vars

\* the countdown has returned and the last event it saw was a button press
C17_Witness == pc = "run_game" /\ number = 0 /\ event = "MOUSEBUTTONDOWN_1"

\* C18: whenever the event loop of the countdown or of run_game (Running or
\* GameOver) comes to a pygame.QUIT the process ends in that step, and nothing
\* happens after the process has ended.
C18_QuitTerminates == [][((pc # "terminated" /\ event' = "QUIT") => pc' = "terminated") /\ (pc = "terminated" => UNCHANGED vars)]_vars

\* the process ended on a QUIT taken in GameOver after another event of the same frame
C18_Witness == pc = "terminated" /\ event = "QUIT" /\ game_over /\ taken = 2

\* C19: no step of a session lowers score, and score is never negative.
C19_ScoreMonotone == [][(InSession => (score >= 0 /\ score' >= score)) /\ (pc' \in {"frame", "events"} => score' >= 0)]_vars

\* a session in which two moles were hit
C19_Witness == InSession /\ score = 2

\* C20: create_holes() for the 800 x 600 window and the 3 x 3 grid returns 9
\* positions in row-major order (x = 200, 400, 600 within a row; y = 166, 299,
\* 432 row by row), pairwise distinct, strictly inside the window, and the
\* radius 44 = floor(min(cell_w, cell_h) / 3) > 0; a session has one mole per
\* position.
C20_Layout ==
    LET positions == create_holes[1]
        radius == create_holes[2]
    IN  /\ Len(positions) = 9
        /\ \A i \in 1..9 : positions[i] = <<200 * (((i - 1) % 3) + 1), 166 + 133 * ((i - 1) \div 3)>>
        /\ \A i, j \in 1..9 : i # j => positions[i] # positions[j]
        /\ \A i \in 1..9 : positions[i][1] > 0 /\ positions[i][1] < WINDOW_WIDTH /\ positions[i][2] > 0 /\ positions[i][2] < WINDOW_HEIGHT
        /\ radius = 44
        /\ radius * 3 <= Min(cell_w, cell_h) /\ Min(cell_w, cell_h) < (radius + 1) * 3
        /\ InSession => DOMAIN moles = DOMAIN positions

\* the end of the first frame of a session with one mole per position of the layout, one of them up
C20_Witness ==
    /\ InSession /\ Len(moles) = Len(create_holes[1])
    /\ ActiveSet(moles) # {} /\ frames = 1

\* C21: run_game, whenever it is entered, starts with score 0, lives 3,
\* game_over FALSE, active_mole None and nine inactive moles; when it returns,
\* start_the_game goes back to the menu with nothing of the session left, and
\* from the menu Play starts the countdown again.
C21_CycleRestarts == [][((pc = "run_game" /\ pc' # pc) => (pc' = "frame" /\ score' = 0 /\ lives' = 3 /\ ~game_over' /\ active_mole' = None /\ Len(moles') = NumHoles /\ ActiveSet(moles') = {} /\ last_spawn_time' = 0 /\ start_time_ms' = now_ms /\ spawns' = 0)) /\ ((pc = "returned") => (pc' = "menu" /\ score' = 0 /\ lives' = 0 /\ moles' = <<>> /\ ~game_over' /\ active_mole' = None /\ UNCHANGED <<selected_difficulty, selected_theme>>)) /\ ((pc = "menu" /\ pc' = "countdown") => (number' = 3 /\ moles' = <<>> /\ score' = 0))]_vars

\* run_game has just been entered for the second time, after a session that
\* returned to the menu: the locals are fresh and the clock has gone on
C21_Witness ==
    /\ pc = "frame" /\ frames = 0 /\ launches = 2
    /\ score = 0 /\ lives = 3 /\ ~game_over /\ active_mole = None
    /\ Len(moles) = NumHoles /\ ActiveSet(moles) = {}
    /\ start_time_ms = now_ms /\ now_ms > 95000

\* C22: the game logic of a frame spawns exactly when game_over is FALSE and
\* now_ms - last_spawn_time > spawn_interval_ms; a spawn leaves exactly the
\* chosen mole active, with spawn_time = now_ms and visible_ms = the preset's
\* value, the previous mole inactive unless it was chosen again, and
\* last_spawn_time = now_ms, more than spawn_interval_ms after the one before.
C22_Spawn == [][(pc = "events" /\ pc' = "frame") => IF ~game_over /\ now_ms - last_spawn_time > spawn_interval_ms THEN (spawns' = spawns + 1 /\ last_spawn_time' = now_ms /\ last_spawn_time' - last_spawn_time > spawn_interval_ms /\ active_mole' \in 1..NumHoles /\ ActiveSet(moles') = {active_mole'} /\ moles'[active_mole'].spawn_time = now_ms /\ moles'[active_mole'].visible_ms = mole_visible_ms /\ \A i \in DOMAIN moles : i # active_mole' => (~moles'[i].active /\ moles'[i].spawn_time = moles[i].spawn_time)) ELSE (spawns' = spawns /\ last_spawn_time' = last_spawn_time /\ active_mole' = active_mole /\ \A i \in DOMAIN moles : (moles'[i].spawn_time = moles[i].spawn_time /\ (moles'[i].active => moles[i].active)))]_vars

\* the end of a second frame whose spawn chose the mole of the first spawn again
C22_Witness ==
    /\ pc = "frame" /\ frames = 2 /\ ~game_over /\ spawns = 2
    /\ active_mole # None /\ moles[active_mole].active /\ moles[active_mole].spawn_time = now_ms
    /\ \A i \in DOMAIN moles : i # active_mole => moles[i].spawn_time = 0

\* C24: while game_over is FALSE an active mole was activated at
\* last_spawn_time, is the mole active_mole refers to and, at the end of a
\* frame, is no older than its visible_ms; and a step in which a
\* mole stops being active is a hit on it or the spawn that replaces it:
\* moles.update deactivates nothing.
C24_NoExpiryWhileRunning == [][(InSession /\ ~game_over) => \A i \in DOMAIN moles : (moles[i].active => (i = active_mole /\ moles[i].spawn_time = last_spawn_time /\ (pc = "frame" => now_ms - moles[i].spawn_time <= moles[i].visible_ms))) /\ ((moles[i].active /\ InSession' /\ ~moles'[i].active) => ((Takes("MOUSEBUTTONDOWN_1") /\ score' = score + 1 /\ CollidePoint(MoleRect(i), mouse_pos')) \/ (pc = "events" /\ pc' = "frame" /\ spawns' = spawns + 1 /\ active_mole' # i)))]_vars

\* the end of a Running frame that did not spawn, the mole of the frame before still up
C24_Witness ==
    /\ pc = "frame" /\ frames = 2 /\ ~game_over /\ spawns = 1
    /\ active_mole # None /\ moles[active_mole].active /\ now_ms - moles[active_mole].spawn_time = spawn_interval_ms

\* C25: at every point of a session the score plus the number of moles that
\* are up is at most the number of spawns so far: each spawn can be turned into
\* at most one point, however many presses a frame holds.
C25_ScoreAtMostSpawns == InSession => (score + Cardinality(ActiveSet(moles)) <= spawns /\ score <= spawns)

\* two presses on the mole in one frame after the only spawn: one point, one life lost
C25_Witness ==
    /\ pc = "events" /\ taken = 2 /\ event = "MOUSEBUTTONDOWN_1" /\ ~game_over
    /\ spawns = 1 /\ score = 1 /\ lives = 2
    /\ active_mole # None /\ mouse_pos = HolePosition(active_mole)

\* C23: a frame whose elapsed time has reached game_length_seconds is handled
\* with game_over TRUE, and a session that is Running leads to GameOver unless
\* it is left first by Exit, ESC (both return) or QUIT (the process ends),
\* whatever events arrive.
C23_EventuallyGameOver == [](((pc = "events" /\ Elapsed >= game_length_seconds * 1000) => game_over) /\ ((InSession /\ ~game_over) => <>(game_over \/ pc \in {"returned", "terminated"})))

\* GameOver entered on time in the third frame with no life lost, after the
\* player scored
C23_Witness ==
    /\ pc = "events" /\ frames = 2 /\ game_over /\ lives = 3 /\ score > 0
    /\ Elapsed >= game_length_seconds * 1000

=============================================================================
